---- MODULE Spec2Model ----
(***************************************************************************)
(* On-the-fly archive generation of miniserve (src/archive.rs).            *)
(*                                                                         *)
(* One call of ArchiveMethod::create_archive is a small sequential         *)
(* program: it dispatches on the method, checks the source path, builds    *)
(* the container writer (and, for TarGz, the gzip filter below it), walks  *)
(* the directory, finalizes the writers and returns a Result.  The model   *)
(* follows that program step by step.  The destination sink is the         *)
(* sequence of records written to it; every write to the sink and every    *)
(* read of a source entry may fail.                                        *)
(***************************************************************************)
EXTENDS Integers, Sequences, FiniteSets, TLC

VARIABLES
    pc,             \* position of the call: "idle", a step of create_archive, "done"
    method,         \* self: the ArchiveMethod of the call
    dir,            \* dir: the source path, as its sequence of components
    skip_symlinks,  \* skip_symlinks: the caller's symlink policy
    sink,           \* out: what the destination sink has received so far
    gz_open,        \* TarGz: the gzip Encoder has been built over the sink
    gz_in,          \* TarGz: what has been written into the gzip Encoder
    inner_folder,   \* the in-archive root name handed to the container writer
    follow,         \* the container writer's follow-symlinks setting
    idx,            \* number of entries of the walk appended so far
    derefd,         \* a symbolic link has been dereferenced during the walk
    pending,        \* the error being propagated by `?` while locals are dropped
    result,         \* the Result of the call
    fault,          \* the I/O failure injected into the call, if any
    trace,          \* the steps of the call that wrote to the container, in order
    last,           \* the previous completed call (kept by SpecPair only)
    meta            \* the answers of the metadata lookups (SpecMeta only)

vars == <<pc, method, dir, skip_symlinks, sink, gz_open, gz_in, inner_folder,
          follow, idx, derefd, pending, result, fault, trace, last, meta>>

callvars == <<pc, method, dir, skip_symlinks, sink, gz_open, gz_in, inner_folder,
              follow, idx, derefd, pending, result, fault, trace>>

(***************************************************************************)
(* Bounds.                                                                 *)
(***************************************************************************)
\* number of regular files in the archived directory
NumFiles == 2

(***************************************************************************)
(* ArchiveMethod and its metadata lookups.                                 *)
(***************************************************************************)
ArchiveMethod == {"TarGz", "Tar", "Zip"}

extension(self) ==
    CASE self = "TarGz" -> "tar.gz"
      [] self = "Tar"   -> "tar"
      [] self = "Zip"   -> "zip"

content_type(self) ==
    CASE self = "TarGz" -> "application/gzip"
      [] self = "Tar"   -> "application/tar"
      [] self = "Zip"   -> "application/zip"

\* a lookup that marks the ZIP output as gzip-encoded too
content_encoding_zip_gzip(self) ==
    CASE self = "TarGz" -> "Gzip"
      [] self = "Tar"   -> "Identity"
      [] self = "Zip"   -> "Gzip"

content_encoding(self) ==
    CASE self = "TarGz" -> "Gzip"
      [] self = "Tar"   -> "Identity"
      [] self = "Zip"   -> "Identity"

\* a lookup with the flags of Tar and TarGz exchanged
is_enabled_swapped(self, tar_enabled, tar_gz_enabled, zip_enabled) ==
    CASE self = "TarGz" -> tar_enabled
      [] self = "Tar"   -> tar_gz_enabled
      [] self = "Zip"   -> zip_enabled

is_enabled(self, tar_enabled, tar_gz_enabled, zip_enabled) ==
    CASE self = "TarGz" -> tar_gz_enabled
      [] self = "Tar"   -> tar_enabled
      [] self = "Zip"   -> zip_enabled

(***************************************************************************)
(* Paths.  A path is the sequence of its components (Path::components);    *)
(* a normal component carries its name as a sequence of bytes.             *)
(***************************************************************************)
None == [some |-> FALSE]
Some(x) == [some |-> TRUE, v |-> x]

Normal(n) == [kind |-> "Normal", name |-> n]
RootDir == [kind |-> "RootDir", name |-> <<47>>]
ParentDir == [kind |-> "ParentDir", name |-> <<46, 46>>]

\* the names used for the source paths: "a", "b", "c", "\u{e9}" (two bytes),
\* and two byte strings that are not UTF-8
NameA == <<97>>
NameB == <<98>>
NameC == <<99>>
NameEacute == <<195, 169>>
NameFF == <<255>>
NameTrunc == <<99, 195>>

\* str::from_utf8 on the byte ranges the names use: ASCII bytes, and two-byte
\* sequences (a lead byte 0xC2..0xDF followed by a continuation byte 0x80..0xBF)
RECURSIVE Utf8Valid(_)
Utf8Valid(bytes) ==
    IF bytes = <<>> THEN TRUE
    ELSE IF bytes[1] < 128 THEN Utf8Valid(Tail(bytes))
    ELSE IF /\ bytes[1] >= 194 /\ bytes[1] <= 223
            /\ Len(bytes) >= 2
            /\ bytes[2] >= 128 /\ bytes[2] <= 191
         THEN Utf8Valid(Tail(Tail(bytes)))
    ELSE FALSE

\* OsStr::to_str
os_to_str(bytes) == IF Utf8Valid(bytes) THEN Some(bytes) ELSE None

\* Path::file_name: the final component, if it is a normal one
file_name(path) ==
    IF path = <<>> THEN None
    ELSE IF path[Len(path)].kind = "Normal" THEN Some(path[Len(path)].name)
    ELSE None

\* the bytes of a path: its components joined by '/'
RECURSIVE PathBytes(_)
PathBytes(path) ==
    IF path = <<>> THEN <<>>
    ELSE IF Len(path) = 1 THEN path[1].name
    ELSE IF path[1].kind = "RootDir" THEN path[1].name \o PathBytes(Tail(path))
    ELSE path[1].name \o <<47>> \o PathBytes(Tail(path))

\* Path::to_str
path_to_str(path) == os_to_str(PathBytes(path))

\* the source paths create_archive is called with
Dirs ==
    { <<Normal(NameA), Normal(NameB), Normal(NameC)>>,   \* a/b/c
      <<Normal(NameEacute)>>,                            \* a valid non-ASCII name
      <<RootDir>>,                                       \* /
      <<Normal(NameA), ParentDir>>,                      \* a/..
      <<>>,                                              \* the empty path
      <<Normal(NameC), Normal(NameFF)>>,                 \* final component not UTF-8
      <<Normal(NameA), Normal(NameTrunc)>>,              \* final component truncated UTF-8
      <<Normal(NameFF), Normal(NameC)>> }                \* only a leading component not UTF-8

(***************************************************************************)
(* The archived directory: the entries the recursive walk visits, in       *)
(* order, by their path relative to the source directory.  The directory   *)
(* itself, NumFiles regular files, and a symbolic link to a regular file.  *)
(***************************************************************************)
Tree ==
    [i \in 1..(NumFiles + 2) |->
        IF i = 1 THEN [rel |-> <<>>, kind |-> "dir"]
        ELSE IF i <= NumFiles + 1 THEN [rel |-> <<(<<100 + i - 1>>)>>, kind |-> "file"]
        ELSE [rel |-> <<(<<108>>)>>, kind |-> "symlink"]]

\* the entry a container writer records for node t of the walk, under the
\* in-archive root `root`, with the writer's follow-symlinks setting f
Entry(root, t, f) ==
    [path |-> root \o t.rel,
     type |-> IF t.kind = "symlink" THEN (IF f THEN "file" ELSE "link") ELSE t.kind]

(***************************************************************************)
(* What the sink receives.  The gzip Encoder turns what is written into it *)
(* into compressed blocks between a header and a trailer holding the size  *)
(* of the uncompressed input.                                               *)
(***************************************************************************)
TarEntry(e) == [k |-> "tar_entry", path |-> e.path, type |-> e.type]
TarEof == [k |-> "tar_eof"]
ZipEntry(e) == [k |-> "zip_entry", path |-> e.path, type |-> e.type]
ZipCentralDirectory(n) == [k |-> "zip_central_directory", n |-> n]
GzHeader == [k |-> "gz_header"]
GzBlock(tok) == [k |-> "gz_block", data |-> tok]
GzTrailer(n) == [k |-> "gz_trailer", isize |-> n]

\* gzip decompression of a complete stream; None when the stream is not one
Gunzip(s) ==
    IF /\ Len(s) >= 2
       /\ s[1].k = "gz_header"
       /\ s[Len(s)].k = "gz_trailer"
       /\ \A i \in 2..(Len(s) - 1) : s[i].k = "gz_block"
       /\ s[Len(s)].isize = Len(s) - 2
    THEN Some([i \in 1..(Len(s) - 2) |-> s[i + 1].data])
    ELSE None

(***************************************************************************)
(* ContextualError and Result.                                             *)
(***************************************************************************)
IoError(ctx, arg, cause) == [kind |-> "IoError", ctx |-> ctx, arg |-> arg, cause |-> cause]
InvalidPathError(msg) == [kind |-> "InvalidPathError", ctx |-> msg]
ArchiveCreationError(ctx, inner) == [kind |-> "ArchiveCreationError", ctx |-> ctx, inner |-> inner]

Pending == [tag |-> "pending"]
Ok == [tag |-> "Ok"]
Err(e) == [tag |-> "Err", err |-> e]

\* the I/O failures the environment can raise
ReadError == "read_error"
WriteError == "write_error"

NoFault == [some |-> FALSE]
Fault(step, cause) == [some |-> TRUE, step |-> step, cause |-> cause, at |-> Len(sink)]

NoCall == [some |-> FALSE]
Unqueried == [q |-> FALSE]
Answer(m, args, r) == [q |-> TRUE, m |-> m, args |-> args, r |-> r]

(***************************************************************************)
(* Initial state: no call in progress.                                     *)
(***************************************************************************)
IdleCall ==
    /\ pc = "idle"
    /\ method = "Tar"
    /\ dir = <<>>
    /\ skip_symlinks = FALSE
    /\ sink = <<>>
    /\ gz_open = FALSE
    /\ gz_in = <<>>
    /\ inner_folder = <<>>
    /\ follow = FALSE
    /\ idx = 0
    /\ derefd = FALSE
    /\ pending = None
    /\ result = Pending
    /\ fault = NoFault
    /\ trace = <<>>

Init ==
    /\ IdleCall
    /\ last = NoCall
    /\ meta = [extension |-> Unqueried, content_type |-> Unqueried,
               content_encoding |-> Unqueried, is_enabled |-> Unqueried]

(***************************************************************************)
(* create_archive: dispatch on the method.                                 *)
(***************************************************************************)
Dispatch(self) ==
    CASE self = "TarGz" -> "tar_gz"
      [] self = "Tar"   -> "tar_dir"
      [] self = "Zip"   -> "zip_dir"

create_archive(self, d, skip) ==
    /\ pc = "idle"
    /\ method' = self
    /\ dir' = d
    /\ skip_symlinks' = skip
    /\ pc' = Dispatch(self)
    /\ UNCHANGED <<sink, gz_open, gz_in, inner_folder, follow, idx, derefd,
                   pending, result, fault, trace, last, meta>>

\* a container writer that is handed the sink itself, past the gzip Encoder
OutPastEncoder(tok) == tok

\* what a write of tok by the container writer puts on the sink: the writer's
\* `out` is the gzip Encoder when tar_gz built one, the sink itself otherwise
Out(tok) == IF gz_open THEN GzBlock(tok) ELSE tok

\* the call returns r
Return(r) ==
    /\ result' = r
    /\ pc' = "done"

(***************************************************************************)
(* tar_gz: Encoder::new(out) writes the gzip header to the sink, before    *)
(* tar_dir is entered.                                                     *)
(***************************************************************************)
GzNew ==
    /\ pc = "tar_gz"
    /\ \/ /\ sink' = Append(sink, GzHeader)
          /\ gz_open' = TRUE
          /\ trace' = Append(trace, "gz_new")
          /\ pc' = "tar_dir"
          /\ UNCHANGED <<result, fault>>
       \/ /\ fault' = Fault("gz_new", WriteError)
          /\ Return(Err(IoError("GZIP", <<>>, WriteError)))
          /\ UNCHANGED <<sink, gz_open, trace>>
    /\ UNCHANGED <<method, dir, skip_symlinks, gz_in, inner_folder, follow, idx,
                   derefd, pending, last, meta>>

(***************************************************************************)
(* tar_dir: the in-archive root is the final component of dir, as text.    *)
(***************************************************************************)
\* the Result of the path check of tar_dir
TarDirName(d) ==
    IF ~file_name(d).some
    THEN Err(InvalidPathError("Directory name terminates in \"..\""))
    ELSE IF ~os_to_str(file_name(d).v).some
    THEN Err(InvalidPathError("Directory name contains invalid UTF-8 characters"))
    ELSE Ok

\* the whole source path as the in-archive root
TarInnerFolderFullPath(d) == [i \in 1..Len(d) |-> d[i].name]

\* the inner_folder argument tar_dir passes to tar
TarInnerFolder(d) == <<os_to_str(file_name(d).v).v>>

TarDir ==
    /\ pc = "tar_dir"
    /\ IF TarDirName(dir) # Ok
       THEN /\ Return(TarDirName(dir))
            /\ UNCHANGED inner_folder
       ELSE /\ inner_folder' = TarInnerFolder(dir)
            /\ pc' = "tar"
            /\ UNCHANGED result
    /\ UNCHANGED <<method, dir, skip_symlinks, sink, gz_open, gz_in, follow, idx,
                   derefd, pending, fault, trace, last, meta>>

(***************************************************************************)
(* tar: Builder::new(out); follow_symlinks(!skip_symlinks);                *)
(* append_dir_all; into_inner.                                             *)
(***************************************************************************)
\* the argument of tar_builder.follow_symlinks
TarFollow(skip) == ~skip

TarNew ==
    /\ pc = "tar"
    /\ follow' = TarFollow(skip_symlinks)
    /\ pc' = "tar_append"
    /\ UNCHANGED <<method, dir, skip_symlinks, sink, gz_open, gz_in, inner_folder,
                   idx, derefd, pending, result, fault, trace, last, meta>>

\* the error tar returns when append_dir_all fails, as wrapped by tar_dir
TarAppendError(d, cause) ==
    ArchiveCreationError("tarball",
        IoError("Failed to append the content of {} to the TAR archive",
                IF path_to_str(d).some THEN path_to_str(d).v ELSE <<102, 105, 108, 101>>,
                cause))

\* the into_inner error without the wrapping of tar_dir
TarFinishErrorUnwrapped(cause) ==
    IoError("Failed to finish writing the TAR archive", <<>>, cause)

\* the error tar returns when into_inner fails, as wrapped by tar_dir
TarFinishError(cause) ==
    ArchiveCreationError("tarball",
        IoError("Failed to finish writing the TAR archive", <<>>, cause))

\* append_dir_all, one entry of the walk at a time
TarAppend ==
    /\ pc = "tar_append"
    /\ idx < Len(Tree)
    /\ \/ /\ sink' = Append(sink, Out(TarEntry(Entry(inner_folder, Tree[idx + 1], follow))))
          /\ gz_in' = IF gz_open
                      THEN Append(gz_in, TarEntry(Entry(inner_folder, Tree[idx + 1], follow)))
                      ELSE gz_in
          /\ idx' = idx + 1
          /\ derefd' = (derefd \/ (Tree[idx + 1].kind = "symlink" /\ follow))
          /\ trace' = Append(trace, "append")
          /\ pc' = IF idx + 1 = Len(Tree) THEN "tar_finish" ELSE "tar_append"
          /\ UNCHANGED <<pending, fault>>
       \/ \E cause \in {ReadError, WriteError} :
          /\ fault' = Fault("append", cause)
          /\ pending' = Some(TarAppendError(dir, cause))
          /\ pc' = "tar_drop"
          /\ UNCHANGED <<sink, gz_in, idx, derefd, trace>>
    /\ UNCHANGED <<method, dir, skip_symlinks, gz_open, inner_folder, follow,
                   result, last, meta>>

\* the `?` after append_dir_all returns from tar while tar_builder is live:
\* Builder's Drop runs finish(), which writes the end-of-archive blocks and
\* ignores an error of that write
TarDrop ==
    /\ pc = "tar_drop"
    /\ \/ /\ sink' = Append(sink, Out(TarEof))
          /\ gz_in' = IF gz_open THEN Append(gz_in, TarEof) ELSE gz_in
          /\ trace' = Append(trace, "tar_finish_on_drop")
       \/ UNCHANGED <<sink, gz_in, trace>>
    /\ Return(Err(pending.v))
    /\ pending' = None
    /\ UNCHANGED <<method, dir, skip_symlinks, gz_open, inner_folder, follow, idx,
                   derefd, fault, last, meta>>

\* into_inner: finish the archive
TarFinish ==
    /\ pc = "tar_finish"
    /\ \/ /\ sink' = Append(sink, Out(TarEof))
          /\ gz_in' = IF gz_open THEN Append(gz_in, TarEof) ELSE gz_in
          /\ trace' = Append(trace, "tar_finish")
          /\ IF method = "TarGz"
             THEN pc' = "gz_finish" /\ UNCHANGED result
             ELSE Return(Ok)
          /\ UNCHANGED fault
       \/ /\ fault' = Fault("tar_finish", WriteError)
          /\ Return(Err(TarFinishError(WriteError)))
          /\ UNCHANGED <<sink, gz_in, trace>>
    /\ UNCHANGED <<method, dir, skip_symlinks, gz_open, inner_folder, follow, idx,
                   derefd, pending, last, meta>>

(***************************************************************************)
(* tar_gz, after tar_dir returned Ok: out.finish().into_result().          *)
(***************************************************************************)
GzFinishError(cause) == IoError("GZIP finish", <<>>, cause)

\* a tar_gz that drops the result of out.finish()
GzFinishUnchecked ==
    /\ pc = "gz_finish"
    /\ \/ /\ sink' = Append(sink, GzTrailer(Len(gz_in)))
          /\ trace' = Append(trace, "gz_finish")
          /\ UNCHANGED fault
       \/ /\ fault' = Fault("gz_finish", WriteError)
          /\ UNCHANGED <<sink, trace>>
    /\ Return(Ok)
    /\ UNCHANGED <<method, dir, skip_symlinks, gz_open, gz_in, inner_folder, follow,
                   idx, derefd, pending, last, meta>>

GzFinish ==
    /\ pc = "gz_finish"
    /\ \/ /\ sink' = Append(sink, GzTrailer(Len(gz_in)))
          /\ trace' = Append(trace, "gz_finish")
          /\ Return(Ok)
          /\ UNCHANGED fault
       \/ /\ fault' = Fault("gz_finish", WriteError)
          /\ Return(Err(GzFinishError(WriteError)))
          /\ UNCHANGED <<sink, trace>>
    /\ UNCHANGED <<method, dir, skip_symlinks, gz_open, gz_in, inner_folder, follow,
                   idx, derefd, pending, last, meta>>

(***************************************************************************)
(* zip_dir: Archive::new(out), the two path checks, add_dir_all, finish.   *)
(***************************************************************************)
\* streaming_zip::Archive::new(out): a ZIP stream has no leading header
ZipNew ==
    /\ pc = "zip_dir"
    /\ pc' = "zip_check"
    /\ UNCHANGED <<method, dir, skip_symlinks, sink, gz_open, gz_in, inner_folder,
                   follow, idx, derefd, pending, result, fault, trace, last, meta>>

\* the Result of the path checks of zip_dir: dir.file_name(), then dir.to_str()
ZipDirName(d) ==
    IF ~file_name(d).some
    THEN Err(InvalidPathError("Could not get the directory name of {:?}"))
    ELSE IF ~path_to_str(d).some
    THEN Err(InvalidPathError("Could not get the path of {:?}"))
    ELSE Ok

\* the root name zip_dir passes to add_dir_all
ZipInnerFolder(d) == <<file_name(d).v>>

\* The symlink handling of the ZIP writer.  zip_dir does not pass
\* skip_symlinks on (the TODO at its top): whether the walk of add_dir_all
\* dereferences links is the library's choice, the same for either value of
\* the caller's flag.
ZipFollow(skip) == BOOLEAN

ZipCheck ==
    /\ pc = "zip_check"
    /\ IF ZipDirName(dir) # Ok
       THEN /\ Return(ZipDirName(dir))
            /\ UNCHANGED <<inner_folder, follow>>
       ELSE /\ inner_folder' = ZipInnerFolder(dir)
            /\ follow' \in ZipFollow(skip_symlinks)
            /\ pc' = "zip_append"
            /\ UNCHANGED result
    /\ UNCHANGED <<method, dir, skip_symlinks, sink, gz_open, gz_in, idx, derefd,
                   pending, fault, trace, last, meta>>

ZipAppendError(d, cause) ==
    ArchiveCreationError("ZIP",
        IoError("Failed to append the content of {} to the ZIP archive",
                path_to_str(d).v, cause))

ZipFinishError(cause) ==
    ArchiveCreationError("ZIP finish",
        IoError("Failed to finish writing to the ZIP archive", <<>>, cause))

\* add_dir_all, one entry of the walk at a time
ZipAppend ==
    /\ pc = "zip_append"
    /\ idx < Len(Tree)
    /\ \/ /\ sink' = Append(sink, ZipEntry(Entry(inner_folder, Tree[idx + 1], follow)))
          /\ idx' = idx + 1
          /\ derefd' = (derefd \/ (Tree[idx + 1].kind = "symlink" /\ follow))
          /\ trace' = Append(trace, "append")
          /\ pc' = IF idx + 1 = Len(Tree) THEN "zip_finish" ELSE "zip_append"
          /\ UNCHANGED <<result, fault>>
       \/ \E cause \in {ReadError, WriteError} :
          /\ fault' = Fault("append", cause)
          /\ Return(Err(ZipAppendError(dir, cause)))
          /\ UNCHANGED <<sink, idx, derefd, trace>>
    /\ UNCHANGED <<method, dir, skip_symlinks, gz_open, gz_in, inner_folder, follow,
                   pending, last, meta>>

\* zip_writer.finish(): the central directory
ZipFinish ==
    /\ pc = "zip_finish"
    /\ \/ /\ sink' = Append(sink, ZipCentralDirectory(idx))
          /\ trace' = Append(trace, "zip_finish")
          /\ Return(Ok)
          /\ UNCHANGED fault
       \/ /\ fault' = Fault("zip_finish", WriteError)
          /\ Return(Err(ZipFinishError(WriteError)))
          /\ UNCHANGED <<sink, trace>>
    /\ UNCHANGED <<method, dir, skip_symlinks, gz_open, gz_in, inner_folder, follow,
                   idx, derefd, pending, last, meta>>

(***************************************************************************)
(* The caller takes the Result; the call's writer, filter and walk state   *)
(* end with it.                                                            *)
(***************************************************************************)
\* the state of a call ends with it
Reset ==
    /\ pc' = "idle"
    /\ method' = "Tar"
    /\ dir' = <<>>
    /\ skip_symlinks' = FALSE
    /\ sink' = <<>>
    /\ gz_open' = FALSE
    /\ gz_in' = <<>>
    /\ inner_folder' = <<>>
    /\ follow' = FALSE
    /\ idx' = 0
    /\ derefd' = FALSE
    /\ pending' = None
    /\ result' = Pending
    /\ fault' = NoFault
    /\ trace' = <<>>

Finished ==
    /\ pc = "done"
    /\ Reset
    /\ UNCHANGED <<last, meta>>

\* as Finished, remembering the call for comparison with the next one
FinishedKeep ==
    /\ pc = "done"
    /\ Reset
    /\ last' = [some |-> TRUE, method |-> method, dir |-> dir,
                skip_symlinks |-> skip_symlinks, result |-> result, sink |-> sink]
    /\ UNCHANGED meta

(***************************************************************************)
(* The metadata lookups, each recording its argument and its answer.       *)
(***************************************************************************)
Extension ==
    \E m \in ArchiveMethod :
        /\ meta' = [meta EXCEPT !.extension = Answer(m, <<>>, extension(m))]
        /\ UNCHANGED <<callvars, last>>

ContentType ==
    \E m \in ArchiveMethod :
        /\ meta' = [meta EXCEPT !.content_type = Answer(m, <<>>, content_type(m))]
        /\ UNCHANGED <<callvars, last>>

ContentEncoding ==
    \E m \in ArchiveMethod :
        /\ meta' = [meta EXCEPT !.content_encoding = Answer(m, <<>>, content_encoding(m))]
        /\ UNCHANGED <<callvars, last>>

IsEnabled ==
    \E m \in ArchiveMethod, t \in BOOLEAN, g \in BOOLEAN, z \in BOOLEAN :
        /\ meta' = [meta EXCEPT !.is_enabled = Answer(m, <<t, g, z>>, is_enabled(m, t, g, z))]
        /\ UNCHANGED <<callvars, last>>

(***************************************************************************)
(* Specifications.                                                         *)
(***************************************************************************)
CreateArchive ==
    \E m \in ArchiveMethod, d \in Dirs, s \in BOOLEAN : create_archive(m, d, s)

Steps ==
    \/ GzNew
    \/ TarDir
    \/ TarNew
    \/ TarAppend
    \/ TarDrop
    \/ TarFinish
    \/ GzFinish
    \/ ZipNew
    \/ ZipCheck
    \/ ZipAppend
    \/ ZipFinish

\* calls of create_archive, one after the other
Next ==
    \/ CreateArchive
    \/ Steps
    \/ Finished

Spec == Init /\ [][Next]_vars

\* two calls of create_archive, the first remembered when the second runs
NextPair ==
    \/ CreateArchive
    \/ Steps
    \/ (last = NoCall /\ FinishedKeep)

SpecPair == Init /\ [][NextPair]_vars

\* the metadata lookups alone
NextMeta ==
    \/ Extension
    \/ ContentType
    \/ ContentEncoding
    \/ IsEnabled

SpecMeta == Init /\ [][NextMeta]_vars

\* calls of create_archive, with the lookups a caller makes to label the output
NextServe ==
    \/ Next
    \/ Extension
    \/ ContentType
    \/ ContentEncoding

SpecServe == Init /\ [][NextServe]_vars

(***************************************************************************)
(* Properties.                                                             *)
(***************************************************************************)
\* the source path has a final component that is valid text
HasRootName(d) == file_name(d).some /\ os_to_str(file_name(d).v).some

IsInvalidPath(r) == r.tag = "Err" /\ r.err.kind = "InvalidPathError"

\* the container writer of the call has been built and configured
WriterBuilt ==
    pc \in {"tar_append", "tar_drop", "tar_finish", "gz_finish", "zip_append", "zip_finish"}
    \/ (pc = "done" /\ (idx > 0 \/ (fault.some /\ fault.step # "gz_new")))

\* C1 (as stated): for every method, a call on a path without a final
\* component, or whose final component is not valid text, returns an
\* invalid-path error and has written nothing to the sink (stated for the
\* calls in which no read or write failed).
C1_InvalidPathWritesNothing ==
    (pc = "done" /\ ~HasRootName(dir) /\ ~fault.some)
        => (IsInvalidPath(result) /\ sink = <<>>)

\* C2: when a Tar call and a TarGz call on the same directory with the same
\* symlink policy both succeed, what TarGz fed its gzip filter, which is
\* what its output decompresses to, is exactly what Tar wrote to its sink.
C2_TarGzDecompressesToTar ==
    (/\ pc = "done" /\ last.some
     /\ result = Ok /\ last.result = Ok
     /\ dir = last.dir /\ skip_symlinks = last.skip_symlinks
     /\ {method, last.method} = {"Tar", "TarGz"})
    => LET gzs == IF method = "TarGz" THEN sink ELSE last.sink
           tars == IF method = "TarGz" THEN last.sink ELSE sink
       IN /\ Gunzip(gzs).some
          /\ Gunzip(gzs).v = tars
          /\ (method = "TarGz" => gz_in = tars)

C2_Witness ==
    /\ pc = "done" /\ last.some
    /\ result = Ok /\ last.result = Ok
    /\ dir = last.dir /\ skip_symlinks = last.skip_symlinks
    /\ method = "TarGz" /\ last.method = "Tar"
    /\ Len(dir) = 3 /\ ~skip_symlinks

\* C3: is_enabled returns the flag of its variant, whatever the other two
\* flags are.
C3_IsEnabledFlagOfVariant ==
    meta.is_enabled.q =>
        LET a == meta.is_enabled IN
        /\ (a.m = "Tar" => a.r = a.args[1])
        /\ (a.m = "TarGz" => a.r = a.args[2])
        /\ (a.m = "Zip" => a.r = a.args[3])

C3_Witness ==
    /\ meta.is_enabled.q
    /\ meta.is_enabled.m = "Tar"
    /\ meta.is_enabled.args = <<FALSE, TRUE, TRUE>>
    /\ meta.is_enabled.r = FALSE

\* the metadata table of section 6
MetaTable ==
    [Tar   |-> [extension |-> "tar", content_type |-> "application/tar",
                content_encoding |-> "Identity"],
     TarGz |-> [extension |-> "tar.gz", content_type |-> "application/gzip",
                content_encoding |-> "Gzip"],
     Zip   |-> [extension |-> "zip", content_type |-> "application/zip",
                content_encoding |-> "Identity"]]

\* C4: every lookup answers as the table says, and for the method of a call
\* whose container writer is at work the content encoding is gzip exactly
\* when the writer's output goes through the gzip filter.
C4_MetadataTable ==
    /\ meta.extension.q =>
        meta.extension.r = MetaTable[meta.extension.m].extension
    /\ meta.content_type.q =>
        meta.content_type.r = MetaTable[meta.content_type.m].content_type
    /\ meta.content_encoding.q =>
        /\ meta.content_encoding.r = MetaTable[meta.content_encoding.m].content_encoding
        /\ (WriterBuilt /\ method = meta.content_encoding.m)
            => (meta.content_encoding.r = "Gzip" <=> gz_open)

C4_Witness ==
    /\ meta.extension.q /\ meta.extension.m = "TarGz"
    /\ meta.content_type.q /\ meta.content_type.m = "Zip"
    /\ meta.content_encoding.q
    /\ meta.content_encoding.m = "TarGz"
    /\ method = "TarGz"
    /\ pc = "tar_append" /\ idx = 1

\* the entries the sink holds, in order (those of a TarGz call decompressed)
EntriesOf(s) ==
    LET plain == [i \in 1..Len(s) |-> IF s[i].k = "gz_block" THEN s[i].data ELSE s[i]]
    IN SelectSeq(plain, LAMBDA tok : tok.k \in {"tar_entry", "zip_entry"})

\* C5: every entry of an archive is named <final component of the source
\* directory>/<path relative to the source directory>; a successful call
\* holds one such entry for every node of the walk, in order.
C5_EntriesUnderFinalComponent ==
    LET es == EntriesOf(sink) IN
    /\ \A i \in 1..Len(es) :
        /\ i <= Len(Tree)
        /\ es[i].path = <<dir[Len(dir)].name>> \o Tree[i].rel
    /\ (result = Ok => Len(es) = Len(Tree))

C5_Witness ==
    /\ pc = "done" /\ result = Ok
    /\ dir = <<Normal(NameA), Normal(NameB), Normal(NameC)>>
    /\ \E i \in 1..Len(EntriesOf(sink)) : EntriesOf(sink)[i].path = <<NameC, <<101>> >>

\* C6 (as stated): every failure after the path check is returned as an
\* archive-creation error naming the failing method or stage and carrying
\* the cause: tarball, ZIP, or gzip finish.
C6_EveryFailureIsArchiveCreationError ==
    (pc = "done" /\ fault.some /\ fault.step # "gz_new") =>
        /\ result.tag = "Err"
        /\ result.err.kind = "ArchiveCreationError"
        /\ result.err.inner.cause = fault.cause
        /\ result.err.ctx =
              CASE fault.step = "gz_finish" -> "GZIP finish"
                [] fault.step = "zip_finish" -> "ZIP finish"
                [] method = "Zip" -> "ZIP"
                [] OTHER -> "tarball"

\* C6 (amended): every failure after the path check is returned as an error
\* naming the failing method or stage and carrying the cause: a TAR writer
\* failure as archive-creation error "tarball", a ZIP writer failure as
\* archive-creation error "ZIP" or "ZIP finish", each wrapping the I/O error;
\* a gzip finalization failure as a bare I/O error "GZIP finish".
C6_FailuresAttributed ==
    (pc = "done" /\ fault.some /\ fault.step # "gz_new") =>
        /\ result.tag = "Err"
        /\ IF fault.step = "gz_finish"
           THEN /\ result.err.kind = "IoError"
                /\ result.err.ctx = "GZIP finish"
                /\ result.err.cause = fault.cause
           ELSE /\ result.err.kind = "ArchiveCreationError"
                /\ result.err.ctx =
                      CASE fault.step = "zip_finish" -> "ZIP finish"
                        [] method = "Zip" -> "ZIP"
                        [] OTHER -> "tarball"
                /\ result.err.inner.kind = "IoError"
                /\ result.err.inner.cause = fault.cause

C6_Witness ==
    /\ pc = "done" /\ method = "TarGz"
    /\ fault.some /\ fault.step = "tar_finish"
    /\ result.tag = "Err" /\ result.err.kind = "ArchiveCreationError"

\* C7 (as stated): the caller's flag governs the walk of every method: the
\* container writer follows links exactly when skip_symlinks is false, and
\* no link is dereferenced when it is true.
C7_CallerFlagGovernsWalk ==
    WriterBuilt =>
        /\ follow = ~skip_symlinks
        /\ (skip_symlinks => ~derefd)

\* the steps a successful call of method m takes, in order
StepsOfSuccess(m) ==
    (IF m = "TarGz" THEN <<"gz_new">> ELSE <<>>)
    \o [i \in 1..Len(Tree) |-> "append"]
    \o (IF m = "Zip" THEN <<"zip_finish">> ELSE <<"tar_finish">>)
    \o (IF m = "TarGz" THEN <<"gz_finish">> ELSE <<>>)

IsFinalization(step) == step \in {"tar_finish", "tar_finish_on_drop", "zip_finish"}

\* C8: in every run no entry is appended after the container is finalized,
\* the gzip filter is finalized only after the TAR writer finished and is
\* the last step; Ok is returned only when every entry was appended and
\* every finalization of the method ran and succeeded, and never after a
\* failed step.
C8_StepsOrderedAndChecked ==
    /\ \A i, j \in 1..Len(trace) :
        i < j =>
            /\ (IsFinalization(trace[i]) => trace[j] # "append")
            /\ trace[i] # "gz_finish"
            /\ (trace[j] = "gz_finish" => \E h \in 1..(j - 1) : trace[h] = "tar_finish")
    /\ (result = Ok => (pc = "done" /\ trace = StepsOfSuccess(method) /\ ~fault.some))
    /\ ((pc = "done" /\ fault.some) => result.tag = "Err")

C8_Witness ==
    /\ pc = "done" /\ method = "TarGz" /\ result = Ok
    /\ sink[Len(sink)].k = "gz_trailer"

\* C9 (as stated): after an I/O failure no later step of the call runs, so
\* the sink holds exactly what it held when the failure occurred, and the
\* call returns an error.
C9_NothingWrittenAfterFailure ==
    fault.some =>
        /\ Len(sink) = fault.at
        /\ \A i \in 1..Len(trace) : trace[i] # "tar_finish_on_drop"
        /\ (pc = "done" => result.tag = "Err")

\* C10 (as stated): zip_dir returns an invalid-path error exactly when
\* tar_dir does: when the final component is absent or is not valid text.
C10_ZipRejectsExactlyWhatTarRejects ==
    (pc = "done" /\ method = "Zip") =>
        (IsInvalidPath(result) <=> (TarDirName(dir) # Ok))

====
